---- MODULE Spec2Model ----
(***************************************************************************)
(* Model of the procedural background compositor                           *)
(* (rendering/randomLib/random_background.py) and of the texture and       *)
(* visibility operations of BlenderMesh                                    *)
(* (rendering/BlenderAPI/BlenderShapes.py).                                *)
(*                                                                         *)
(* Pixel values are binary floating-point numbers.  numpy computes in      *)
(* IEEE-754 binary64 (53 significand bits, round to nearest, ties to       *)
(* even); the model keeps the format and the rounding rule and scales the  *)
(* width down: Prec significand bits, and a smallest spacing of            *)
(* 2^-FracBits (gradual underflow).  A value is held as the natural number *)
(* of units of 2^-FracBits it is worth, so One = 2^FracBits is 1.0.        *)
(***************************************************************************)
EXTENDS Integers, Naturals, Sequences, FiniteSets, TLC

\* ------------------------------------------------------------------ bounds
Prec == 3
FracBits == 6
MaxSize == 2
MaxSide == 3
MaxN == 2

\* ------------------------------------------------- floating-point format
RECURSIVE Pow2(_)
Pow2(k) == IF k <= 0 THEN 1 ELSE 2 * Pow2(k - 1)

RECURSIVE BitLen(_)
BitLen(n) == IF n = 0 THEN 0 ELSE 1 + BitLen(n \div 2)

One == Pow2(FracBits)

Max2(a, b) == IF a >= b THEN a ELSE b

\* Round to nearest, ties to even: the exact value x * 2^-(FracBits + d) as a
\* float of Prec significand bits whose spacing is never below 2^-FracBits,
\* in units of 2^-FracBits.
RoundNearestEven(x, d) ==
    LET e == Max2(BitLen(x) - Prec, d)
        q == x \div Pow2(e)
        r == x % Pow2(e)
        up == (2 * r > Pow2(e)) \/ (2 * r = Pow2(e) /\ q % 2 = 1)
    IN  (IF up THEN q + 1 ELSE q) * Pow2(e - d)

\* A value the format holds exactly.
Representable(v) == RoundNearestEven(v, 0) = v

FMul(a, b) == RoundNearestEven(a * b, FracBits)
FAdd(a, b) == RoundNearestEven(a + b, 0)
\* Only a >= b occurs: the subtraction is 1 - mask with mask in [0,1].
FSub(a, b) == RoundNearestEven(a - b, 0)

\* ------------------------------------------------------ program constants
Channels == 3
SourceCount == 4
ScaleFactor == 256
UInt8Modulus == 256
LayersLo == 2
LayersHi == 4

\* ------------------------------------------------------------------ arrays
\* A numpy array of shape side x side x 3: px maps a pixel to its R, G, B.
Pixels(L) == (1..L) \X (1..L)
NoImage == [side |-> 0, px |-> [p \in {} |-> <<0, 0, 0>>]]
Uniform(L, c) == [side |-> L, px |-> [p \in Pixels(L) |-> c]]

\* np.ones([L, L, 3]) and np.zeros([size, size, 3])
Ones(L) == Uniform(L, <<One, One, One>>)
Zeros(L) == Uniform(L, <<0, 0, 0>>)

\* img[:, :, c]
Channel(img, c) == [p \in Pixels(img.side) |-> img.px[p][c]]
\* img[:, :, c] = grid
SetChannel(img, c, grid) ==
    [img EXCEPT !.px = [p \in Pixels(img.side) |-> [img.px[p] EXCEPT ![c] = grid[p]]]]
\* scalar * grid, elementwise
ScaleGrid(s, grid) == [p \in DOMAIN grid |-> FMul(s, grid[p])]
\* array * scalar, elementwise over every channel
ScaleImage(img, s) ==
    [img EXCEPT !.px = [p \in Pixels(img.side) |->
                          [c \in 1..Channels |-> FMul(img.px[p][c], s)]]]

\* The value at pixel p of a grid that alternates two levels, lo where x + y
\* is even.
Checker(p, lo, hi) == IF (p[1] + p[2]) % 2 = 0 THEN lo ELSE hi

\* --------------------------------------------- draws of the random source
\* np.random.uniform() lies in [0,1): the draw that picks the kind of image.
ChoiceDraws == {One \div 4, One \div 2, 3 * (One \div 4)}
\* The three np.random.uniform() draws of one random_color call.
ColorDraws == {<<0, One \div 2, 3 * (One \div 4)>>,
               <<3 * (One \div 4), One \div 4, One \div 4>>}
\* np.random.uniform(0, 2.0) lies in [0,2).
BrightnessDraws == {One, 3 * (One \div 2)}
\* np.random.uniform(0.1, 0.5) lies in [0.1, 0.5).
BallDraws == {One \div 8, 3 * (One \div 8)}

\* turbulence.turbulence_rgb(size): a size x size x 3 array of values in
\* [0,1], the channels drawn independently.
TurbulenceFields(size) ==
    { [side |-> size,
       px |-> [p \in Pixels(size) |->
                 <<Checker(p, t[1], t[2]), Checker(p, t[2], t[1]), t[2]>>]]
      : t \in {<<One \div 2, One>>, <<One \div 4, 0>>} }

\* metaballs.random_metaball(width, height, count, radius): a width x height
\* grid of values in [0,1].
MetaballFields(w, h, count, radius) ==
    { [p \in (1..w) \X (1..h) |-> Checker(p, t[1], t[2])]
      : t \in {<<0, 0>>, <<One, One>>, <<One \div 16, 3 * (One \div 4)>>} }

\* ------------------------------------------------------- random_background
random_color(L, u) ==
    LET img0 == Ones(L)
        img1 == SetChannel(img0, 1, ScaleGrid(u[1], Channel(img0, 1)))
        img2 == SetChannel(img1, 2, ScaleGrid(u[2], Channel(img1, 2)))
        img3 == SetChannel(img2, 3, ScaleGrid(u[3], Channel(img2, 3)))
    IN  img3

\* The set of arrays one random_image(size) call can return.
random_image(size) ==
    UNION { IF r > One \div 2
            THEN { random_color(size, u) : u \in ColorDraws }
            ELSE { ScaleImage(t, f) : t \in TurbulenceFields(size), f \in BrightnessDraws }
          : r \in ChoiceDraws }

\* Lines 20-25 without line 25: the third channel of the mask stays zero.
mix_mask_TwoChannels(size, field) ==
    LET m0 == Zeros(size)
        m1 == SetChannel(m0, 1, field)
        m2 == SetChannel(m1, 2, Channel(m1, 1))
    IN  m2

\* mix, lines 20-25: the mask built from one metaball field.
mix_mask(size, field) ==
    LET m0 == Zeros(size)
        m1 == SetChannel(m0, 1, field)
        m2 == SetChannel(m1, 2, Channel(m1, 1))
        m3 == SetChannel(m2, 3, Channel(m2, 1))
    IN  m3

\* numpy broadcasting of two side x side x 3 shapes.
Broadcastable(a, b) == a = b \/ a = 1 \/ b = 1
BroadcastAt(img, p) ==
    img.px[<<IF img.side = 1 THEN 1 ELSE p[1], IF img.side = 1 THEN 1 ELSE p[2]>>]

\* Line 27 with the weights exchanged: img1*mask + img2*(1-mask).
BlendValue_Swapped(v1, v2, m) == FAdd(FMul(v1, m), FMul(v2, FSub(One, m)))

\* Line 27 without the complement: img1 + img2*mask.
BlendValue_NoComplement(v1, v2, m) == FAdd(v1, FMul(v2, m))

\* image1*(1-mask) + image2*mask at one pixel and channel.
BlendValue(v1, v2, m) == FAdd(FMul(v1, FSub(One, m)), FMul(v2, m))

\* mix, line 27: img1*(1-mask) + img2*mask, or the ValueError numpy raises
\* when the shapes do not broadcast.
mix_blend(a, b, m) ==
    IF Broadcastable(a.side, m.side) /\ Broadcastable(b.side, m.side)
       /\ Broadcastable(Max2(a.side, m.side), Max2(b.side, m.side))
    THEN LET L == Max2(Max2(a.side, b.side), m.side)
         IN  [kind |-> "return", exc |-> "",
              img |-> [side |-> L,
                       px |-> [p \in Pixels(L) |->
                                 [c \in 1..Channels |->
                                    BlendValue(BroadcastAt(a, p)[c], BroadcastAt(b, p)[c],
                                               BroadcastAt(m, p)[c])]]]]
    ELSE [kind |-> "raise", exc |-> "ValueError", img |-> NoImage]

\* np.random.randint(low, high) lies in low..high-1.
randint(low, high) == low..(high - 1)

\* astype('uint8') of a non-negative float: the fraction is dropped; a value
\* that does not fit in 8 bits is outside what the C conversion defines, and
\* the build either keeps the low 8 bits or saturates.
astype_uint8(x, cast) ==
    LET n == x \div One
    IN  IF n < UInt8Modulus THEN n
        ELSE IF cast = "wrap" THEN n % UInt8Modulus ELSE UInt8Modulus - 1

\* Lines 52-53: scaled = img*256; scaled.astype('uint8').
quantize(img, cast) ==
    [side |-> img.side,
     px |-> [p \in Pixels(img.side) |->
               [c \in 1..Channels |-> astype_uint8(FMul(img.px[p][c], ScaleFactor * One), cast)]]]

\* ------------------------------------------------------------------- state
VARIABLES
    pc,         \* position in rand_background / mix / the batch loop
    caller,     \* "api": rand_background called directly; "driver": the batch loop
    N, size,    \* arguments of rand_background
    i,          \* iterations of the loop of rand_background completed
    T, T2,      \* locals of rand_background
    img1, img2, \* parameters of the running mix call
    mask,       \* local of the running mix call
    ball_size,  \* local of the running mix call
    metaball,   \* the arguments of the random_metaball calls of the running mix call
    trace,      \* the random_image and mix calls made by the running rand_background
    ret,        \* what the last finished call returned or raised
    stored      \* the uint8 array the batch loop last handed to Image.fromarray

pipeVars == <<pc, caller, N, size, i, T, T2, img1, img2, mask, ball_size, metaball,
              trace, ret, stored>>

NoReturn == [kind |-> "none", exc |-> "", img |-> NoImage]

PipeInit ==
    /\ pc = "idle" /\ caller = "none" /\ N = 0 /\ size = 0 /\ i = 0
    /\ T = NoImage /\ T2 = NoImage /\ img1 = NoImage /\ img2 = NoImage
    /\ mask = NoImage /\ ball_size = 0 /\ metaball = <<>> /\ trace = <<>>
    /\ ret = NoReturn /\ stored = NoImage

\* A call starts when no other is running.
Enter(who, n, sz) ==
    /\ pc = "idle"
    /\ caller' = who /\ N' = n /\ size' = sz
    /\ UNCHANGED <<i, T, T2, trace, ret, stored>>

NoFrame ==
    /\ img1' = NoImage /\ img2' = NoImage /\ mask' = NoImage
    /\ ball_size' = 0 /\ metaball' = <<>>

\* rand_background(N, size) called as a library function.
Call ==
    \E n \in 0..MaxN, sz \in 1..MaxSize :
        Enter("api", n, sz) /\ NoFrame /\ pc' = "start"

\* Line 51: rand_background(np.random.randint(2,4), 300); MaxSize stands for
\* the 300 pixels of the batch loop.  Lines 45-49 hold both sides of a merge
\* that was never resolved, for i in range(500,5000) and for i in range(10):
\* either way the body below runs once per image, and the number of images is
\* left open.
DriverCall ==
    \E n \in randint(LayersLo, LayersHi) :
        Enter("driver", n, MaxSize) /\ NoFrame /\ pc' = "start"

\* The loop of line 37 running once too often: range(N + 1).
LoopContinues_Inclusive(k, n) == k <= n

\* Line 37: for i in range(N) runs its body while i < N.
LoopContinues(k, n) == k < n

\* Line 39 with the two images exchanged: mix(T2, T, size).
MixArgs_Swapped(t, t2) == <<t2, t>>

\* Line 39: the arguments rand_background passes to mix.
MixArgs(t, t2) == <<t, t2>>

\* Line 36: T = random_image(size)
DrawBase ==
    /\ pc = "start"
    /\ \E img \in random_image(size) : T' = img
    /\ trace' = Append(trace, "draw")
    /\ pc' = "loop"
    /\ UNCHANGED <<caller, N, size, i, T2, img1, img2, mask, ball_size, metaball, ret, stored>>

\* Line 38: T2 = random_image(size)
DrawLayer ==
    /\ pc = "loop" /\ LoopContinues(i, N)
    /\ \E img \in random_image(size) : T2' = img
    /\ trace' = Append(trace, "draw")
    /\ pc' = "call_mix"
    /\ UNCHANGED <<caller, N, size, i, T, img1, img2, mask, ball_size, metaball, ret, stored>>

\* mix(a, b, sz) up to its return statement: the parameters are bound and
\* lines 20-25 draw ball_size and build the mask.
MixEntry(a, b, sz) ==
    /\ img1' = a /\ img2' = b
    /\ \E r \in BallDraws :
         \E field \in MetaballFields(sz, sz, SourceCount, r) :
            /\ ball_size' = r
            /\ metaball' = <<[width |-> sz, height |-> sz, count |-> SourceCount,
                              radius |-> r]>>
            /\ mask' = mix_mask(sz, field)
    /\ pc' = "in_mix"

\* Line 39, the call mix(T, T2, size).
MixMask ==
    /\ pc = "call_mix"
    /\ MixEntry(MixArgs(T, T2)[1], MixArgs(T, T2)[2], size)
    /\ UNCHANGED <<caller, N, size, i, T, T2, trace, ret, stored>>

\* Arrays a caller of mix may pass.
ArgImages(L) ==
    { [side |-> L,
       px |-> [p \in Pixels(L) |-> <<Checker(p, t[1], t[2]), t[2], t[1]>>]]
      : t \in {<<0, 0>>, <<One, One>>, <<7 * (One \div 8), One \div 2>>,
               <<One \div 4, 5 * (One \div 8)>>, <<3 * (One \div 2), 3 * (One \div 4)>>} }

\* mix(img1, img2, size) called as a library function.
MixCall ==
    /\ pc = "idle"
    /\ \E La \in 1..MaxSide, Lb \in 1..MaxSide, sz \in 1..MaxSide :
         \E a \in ArgImages(La), b \in ArgImages(Lb) :
           /\ Enter("mix", 0, sz)
           /\ MixEntry(a, b, sz)

\* Line 27 of mix.  Inside rand_background the result is assigned to T (line
\* 39) and the frame of mix is gone; an exception leaves rand_background too.
\* A direct call's frame is kept beside what the call returned or raised.
MixReturn ==
    /\ pc = "in_mix"
    /\ LET r == mix_blend(img1, img2, mask)
       IN  IF caller = "mix"
           THEN /\ ret' = r /\ pc' = "returned"
                /\ UNCHANGED <<T, i, trace, img1, img2, mask, ball_size, metaball>>
           ELSE /\ NoFrame
                /\ IF r.kind = "return"
                   THEN /\ T' = r.img /\ i' = i + 1 /\ pc' = "loop"
                        /\ trace' = Append(trace, "mix")
                        /\ UNCHANGED ret
                   ELSE /\ ret' = r /\ pc' = "returned"
                        /\ UNCHANGED <<T, i, trace>>
    /\ UNCHANGED <<caller, N, size, T2, stored>>

\* Line 40: return T
Return ==
    /\ pc = "loop" /\ ~LoopContinues(i, N)
    /\ ret' = [kind |-> "return", exc |-> "", img |-> T]
    /\ pc' = "returned"
    /\ UNCHANGED <<caller, N, size, i, T, T2, img1, img2, mask, ball_size, metaball,
                   trace, stored>>

\* Lines 52-54: the batch loop scales the image, casts it to uint8 and saves it.
Save ==
    /\ pc = "returned" /\ caller = "driver" /\ ret.kind = "return"
    /\ \E cast \in {"wrap", "saturate"} : stored' = quantize(ret.img, cast)
    /\ pc' = "saved"
    /\ UNCHANGED <<caller, N, size, i, T, T2, img1, img2, mask, ball_size, metaball,
                   trace, ret>>

\* The caller is done with the result (the batch loop after saving, or when
\* the exception has ended it): every local of the finished call is dropped.
Finish ==
    /\ \/ pc = "saved"
       \/ pc = "returned" /\ (caller = "driver" => ret.kind = "raise")
    /\ pc' = "idle" /\ caller' = "none" /\ N' = 0 /\ size' = 0 /\ i' = 0
    /\ T' = NoImage /\ T2' = NoImage /\ trace' = <<>>
    /\ ret' = NoReturn /\ stored' = NoImage
    /\ NoFrame

\* -------------------------------------------------------------- BlenderMesh
VARIABLES
    layers,     \* self.reference.layers[0] and [1]
    mpc,        \* "idle", or the method of BlenderMesh that is half done
    recent,     \* the last two finished turn_on / turn_off calls, oldest first
    entry,      \* layers as they were when the last turn_on / turn_off was called
    nodes,      \* the keys of self.nodes that add_image_texture creates
    vector,     \* the texture-coordinate output linked to the image node's vector input
    texcall     \* the last add_image_texture call: its inputs and its outcome

meshVars == <<layers, mpc, recent, entry, nodes, vector, texcall>>

NoCall == [mapping |-> "", loaded |-> FALSE, projection |-> FALSE, image |-> FALSE,
           kind |-> "none", value |-> FALSE]

\* A mesh is created on one of the two layers, or on both.
MeshInit ==
    /\ layers \in {l \in [0..1 -> BOOLEAN] : l[0] \/ l[1]}
    /\ mpc = "idle" /\ recent = <<"", "">> /\ entry = layers
    /\ nodes = {} /\ vector = "" /\ texcall = NoCall

\* Line 152 hiding before showing: layers[0] = False first.
turn_off_first_Hide(l) == [l EXCEPT ![0] = FALSE]

\* Lines 152 and 153
turn_off_first(l) == [l EXCEPT ![1] = TRUE]
turn_off_second(l) == [l EXCEPT ![0] = FALSE]
\* Lines 159 and 160
turn_on_first(l) == [l EXCEPT ![0] = TRUE]
turn_on_second(l) == [l EXCEPT ![1] = FALSE]

TurnOffBegin ==
    /\ mpc = "idle"
    /\ entry' = layers
    /\ layers' = turn_off_first(layers)
    /\ mpc' = "turn_off"
    /\ UNCHANGED <<recent, nodes, vector, texcall>>

TurnOffEnd ==
    /\ mpc = "turn_off"
    /\ layers' = turn_off_second(layers)
    /\ mpc' = "idle"
    /\ recent' = <<recent[2], "turn_off">>
    /\ UNCHANGED <<entry, nodes, vector, texcall>>

TurnOnBegin ==
    /\ mpc = "idle"
    /\ entry' = layers
    /\ layers' = turn_on_first(layers)
    /\ mpc' = "turn_on"
    /\ UNCHANGED <<recent, nodes, vector, texcall>>

TurnOnEnd ==
    /\ mpc = "turn_on"
    /\ layers' = turn_on_second(layers)
    /\ mpc' = "idle"
    /\ recent' = <<recent[2], "turn_on">>
    /\ UNCHANGED <<entry, nodes, vector, texcall>>

\* Line 100
ValidMapping(mapping) == mapping \in {"UV", "Generated"}

\* Lines 100-121 without the try/except around the load (lines 112-115).
add_image_texture_outcome_NoExcept(mapping, loaded, projection, image) ==
    IF ~ValidMapping(mapping) THEN [kind |-> "return", value |-> FALSE]
    ELSE IF ~loaded THEN [kind |-> "raise", value |-> FALSE]
    ELSE IF ~(projection /\ image) THEN [kind |-> "return", value |-> FALSE]
    ELSE [kind |-> "return", value |-> TRUE]

\* Lines 100-121: what add_image_texture returns or raises.  loaded: whether
\* bpy.data.images.load returned (it raises otherwise); projection and image:
\* what set_projection and set_image return.
add_image_texture_outcome(mapping, loaded, projection, image) ==
    IF ~ValidMapping(mapping) THEN [kind |-> "return", value |-> FALSE]
    ELSE IF ~loaded THEN [kind |-> "return", value |-> FALSE]
    ELSE IF ~(projection /\ image) THEN [kind |-> "return", value |-> FALSE]
    ELSE [kind |-> "return", value |-> TRUE]

\* add_image_texture(image_path, projection, mapping)
AddImageTexture ==
    /\ mpc = "idle"
    /\ \E mapping \in {"UV", "Generated", "Window"}, loaded \in BOOLEAN,
          projection \in BOOLEAN, image \in BOOLEAN :
         LET out == add_image_texture_outcome(mapping, loaded, projection, image)
         IN  /\ nodes' = nodes \cup {"node_imgtex"}
                         \cup (IF ValidMapping(mapping) THEN {"node_texcoord"} ELSE {})
             /\ vector' = IF ValidMapping(mapping) THEN mapping ELSE vector
             /\ texcall' = [mapping |-> mapping, loaded |-> loaded,
                            projection |-> projection, image |-> image,
                            kind |-> out.kind, value |-> out.value]
    /\ UNCHANGED <<layers, mpc, recent, entry>>

\* ---------------------------------------------------------- specifications
vars == <<pipeVars, meshVars>>

\* The compositor, beside a mesh that is left on the first layer.
Init == PipeInit /\ MeshInit /\ layers[0] /\ ~layers[1]
Next ==
    \/ Call /\ UNCHANGED meshVars
    \/ DriverCall /\ UNCHANGED meshVars
    \/ MixCall /\ UNCHANGED meshVars
    \/ DrawBase /\ UNCHANGED meshVars
    \/ DrawLayer /\ UNCHANGED meshVars
    \/ MixMask /\ UNCHANGED meshVars
    \/ MixReturn /\ UNCHANGED meshVars
    \/ Return /\ UNCHANGED meshVars
    \/ Save /\ UNCHANGED meshVars
    \/ Finish /\ UNCHANGED meshVars
Spec == Init /\ [][Next]_vars

\* A BlenderMesh, with the compositor idle.
MeshSpecInit == PipeInit /\ MeshInit
MeshSpecNext ==
    \/ TurnOffBegin /\ UNCHANGED pipeVars
    \/ TurnOffEnd /\ UNCHANGED pipeVars
    \/ TurnOnBegin /\ UNCHANGED pipeVars
    \/ TurnOnEnd /\ UNCHANGED pipeVars
    \/ AddImageTexture /\ UNCHANGED pipeVars
MeshSpec == MeshSpecInit /\ [][MeshSpecNext]_vars

\* ------------------------------------------------------------------ claims
FromBackground == caller \in {"api", "driver"}
DirectMix == caller = "mix" /\ pc = "returned"
SameShapes == img1.side = img2.side /\ img2.side = mask.side

InUnit(img) == \A p \in Pixels(img.side) : \A c \in 1..Channels : img.px[p][c] <= One
MaskIs(v) == \A p \in Pixels(mask.side) : \A c \in 1..Channels : mask.px[p][c] = v

\* C1: every channel value of the base image, of every accumulator and of the
\* image rand_background returns lies in [0,1] (the turbulence and metaball
\* fields it is built from do).
C1_ValuesInUnit == FromBackground => InUnit(T) /\ InUnit(ret.img)

\* C2: rand_background(0, size) returns the image of its one random_image
\* call: no second image is drawn, no mask is built and nothing is blended.
C2_ZeroLayers ==
    (FromBackground /\ N = 0) =>
        /\ pc \notin {"call_mix", "in_mix"}
        /\ T2 = NoImage /\ mask = NoImage /\ metaball = <<>>
        /\ pc \in {"loop", "returned"} => (trace = <<"draw">> /\ T \in random_image(size))
        /\ pc = "returned" => (ret.kind = "return" /\ ret.img = T)
C2_Witness ==
    /\ caller = "api" /\ N = 0 /\ pc = "returned"
    /\ ret.kind = "return" /\ ret.img.side = size /\ size = MaxSize

\* C3: for images of one shape, a mask that is 0 everywhere gives image1 back,
\* a mask that is 1 everywhere gives image2, and mix returns
\* image1*(1-mask) + image2*mask at every pixel and channel.
C3_MaskExtremes ==
    (DirectMix /\ SameShapes) =>
        /\ ret.kind = "return" /\ ret.img.side = img1.side
        /\ MaskIs(0) => ret.img = img1
        /\ MaskIs(One) => ret.img = img2
        /\ \A p \in Pixels(img1.side) : \A c \in 1..Channels :
             ret.img.px[p][c] = FAdd(FMul(img1.px[p][c], FSub(One, mask.px[p][c])),
                                     FMul(img2.px[p][c], mask.px[p][c]))
C3_Witness ==
    /\ DirectMix /\ SameShapes /\ MaskIs(0) /\ img1.side = MaxSide
    /\ img1 # img2 /\ ret.img = img1

\* C4 as stated: mixing an image with itself returns exactly that image,
\* whatever the mask.
C4_SelfBlendExact ==
    (DirectMix /\ SameShapes /\ img1 = img2) => (ret.kind = "return" /\ ret.img = img1)

\* The spacing of the floats around v (one unit in the last place of v).
Ulp(v) == Pow2(Max2(BitLen(v) - Prec, 0))
Dist(a, b) == IF a >= b THEN a - b ELSE b - a

\* C4 as amended: mixing an image with itself returns that image up to the
\* rounding of the three products and sums: every value is within 4 units in
\* the last place of the original, and is the original where the mask is 0
\* or 1.
C4_SelfBlendRounded ==
    (DirectMix /\ SameShapes /\ img1 = img2) =>
        /\ ret.kind = "return" /\ ret.img.side = img1.side
        /\ \A p \in Pixels(img1.side) : \A c \in 1..Channels :
             /\ Dist(ret.img.px[p][c], img1.px[p][c]) <= 4 * Ulp(img1.px[p][c])
             /\ mask.px[p][c] \in {0, One} => ret.img.px[p][c] = img1.px[p][c]
C4_Witness ==
    /\ DirectMix /\ SameShapes /\ img1 = img2 /\ ret.kind = "return"
    /\ ret.img # img1 /\ ~MaskIs(0) /\ ~MaskIs(One)

\* C5: mix on arrays whose spatial dimensions differ fails with
\* DimensionMismatchError and produces no image.
C5_MismatchRaises ==
    (DirectMix /\ ~SameShapes) =>
        (ret.kind = "raise" /\ ret.exc = "DimensionMismatchError" /\ ret.img = NoImage)

\* C6: a value v in [0,1] is stored as v*255 truncated or rounded, which lies
\* in 0..255; storing is monotonic in v and 1.0 is stored as 255.
Stored255(v) == {(v * 255) \div One, (2 * v * 255 + One) \div (2 * One)}
C6_Quantized ==
    pc = "saved" =>
        \A p \in Pixels(ret.img.side) : \A c \in 1..Channels :
            ret.img.px[p][c] <= One =>
                /\ stored.px[p][c] \in 0..255
                /\ stored.px[p][c] \in Stored255(ret.img.px[p][c])
                /\ ret.img.px[p][c] = One => stored.px[p][c] = 255
                /\ \A q \in Pixels(ret.img.side) : \A d \in 1..Channels :
                     ret.img.px[q][d] <= ret.img.px[p][c]
                        => stored.px[q][d] <= stored.px[p][c]

\* C7: rand_background draws, then draws and mixes N times, in that order and
\* with no step repeated or undone: every step has a successor and takes one
\* off the 3N+2 steps left, so the call returns after N+1 draws and N mixes;
\* mix receives the accumulator as image1 and the fresh image as image2, and
\* what it returns is the next accumulator.
RECURSIVE Rounds(_)
Rounds(k) == IF k <= 0 THEN <<>> ELSE Rounds(k - 1) \o <<"draw", "mix">>
StepsLeft ==
    CASE pc = "start" -> 3 * N + 2
      [] pc = "loop" -> 3 * (N - i) + 1
      [] pc = "call_mix" -> 3 * (N - i)
      [] pc = "in_mix" -> 3 * (N - i) - 1
      [] OTHER -> 0
C7_Trace ==
    FromBackground =>
        /\ i <= N
        /\ pc = "start" => random_image(size) # {}
        /\ pc = "call_mix" => \A r \in BallDraws : MetaballFields(size, size, 4, r) # {}
        /\ pc = "start" => trace = <<>>
        /\ pc = "loop" => trace = <<"draw">> \o Rounds(i)
        /\ pc \in {"call_mix", "in_mix"} =>
              (i < N /\ trace = <<"draw">> \o Rounds(i) \o <<"draw">>)
        /\ pc = "in_mix" => (img1 = T /\ img2 = T2)
        /\ pc \in {"returned", "saved"} =>
              (trace = <<"draw">> \o Rounds(N) /\ ret.kind = "return" /\ ret.img = T)
C7_Step ==
    (FromBackground /\ pc \in {"start", "loop", "call_mix", "in_mix"}) =>
        /\ StepsLeft' = StepsLeft - 1
        /\ pc = "in_mix" =>
              /\ pc' = "loop" /\ i' = i + 1
              /\ T' = [side |-> size,
                       px |-> [p \in Pixels(size) |-> [c \in 1..Channels |->
                                 FAdd(FMul(T.px[p][c], FSub(One, mask.px[p][c])),
                                      FMul(T2.px[p][c], mask.px[p][c]))]]]
C7_DrawMixOrder == [](C7_Trace) /\ [][C7_Step]_vars
C7_Witness ==
    /\ caller = "driver" /\ pc = "returned" /\ N = LayersHi - 1
    /\ trace = <<"draw", "draw", "mix", "draw", "mix", "draw", "mix">>

\* C8: a mix call evaluates random_metaball once, on size x size with 4
\* sources and a radius drawn from [0.1, 0.5), and the three channels of its
\* mask are that one field.
C8_MaskFromOneField ==
    pc = "in_mix" =>
        /\ Len(metaball) = 1
        /\ metaball[1].width = size /\ metaball[1].height = size
        /\ metaball[1].count = 4
        /\ metaball[1].radius = ball_size
        /\ 10 * ball_size >= One /\ 2 * ball_size < One
        /\ mask.side = size
        /\ Channel(mask, 1) \in MetaballFields(size, size, 4, ball_size)
        /\ \A p \in Pixels(size) :
             mask.px[p][1] = mask.px[p][2] /\ mask.px[p][2] = mask.px[p][3]
C8_Witness ==
    /\ pc = "in_mix" /\ caller = "driver" /\ size = MaxSize
    /\ mask.px[<<1, 1>>] = <<One \div 16, One \div 16, One \div 16>>

\* C9: add_image_texture raises nothing when loading the image fails and
\* returns False then; it returns False for a mapping other than 'UV' and
\* 'Generated'; it returns True only if the mapping is valid, the image was
\* loaded and set_projection and set_image both succeeded.
C9_TextureOutcome ==
    texcall.kind # "none" =>
        /\ texcall.kind = "return"
        /\ ~texcall.loaded => texcall.value = FALSE
        /\ texcall.mapping \notin {"UV", "Generated"} => texcall.value = FALSE
        /\ texcall.value = TRUE =>
              /\ texcall.mapping \in {"UV", "Generated"}
              /\ texcall.loaded /\ texcall.projection /\ texcall.image
C9_Witness ==
    /\ texcall.kind = "return" /\ texcall.mapping = "Generated" /\ ~texcall.loaded
    /\ texcall.value = FALSE /\ "node_texcoord" \in nodes

\* C10: at every step, also inside turn_on and turn_off, the mesh is on layer
\* 0 or on layer 1; after turn_on it is on layer 0 only and after turn_off on
\* layer 1 only; a second call of the same method changes nothing.
C10_OneLayer ==
    /\ layers[0] \/ layers[1]
    /\ (mpc = "idle" /\ recent[2] = "turn_on") => (layers[0] /\ ~layers[1])
    /\ (mpc = "idle" /\ recent[2] = "turn_off") => (layers[1] /\ ~layers[0])
    /\ (mpc = "idle" /\ recent[1] = recent[2] /\ recent[2] # "") => layers = entry
    /\ (mpc # "idle" /\ recent[2] = mpc) => layers = entry
C10_Witness ==
    /\ mpc = "idle" /\ recent = <<"turn_on", "turn_off">>
    /\ layers[1] /\ ~layers[0] /\ entry[0] /\ ~entry[1]

====
